---------------------------- MODULE Spec2Model ----------------------------
(***************************************************************************)
(* A model of AddressCmdTool.py: validation of object names, normalisation *)
(* of IP/CIDR literals, generation of "set address" / "set address-group"  *)
(* command lines, and the two-step dialogs and file imports that feed the  *)
(* output text box.                                                        *)
(*                                                                         *)
(* A Python str is a sequence of one-character strings, so that strip,     *)
(* split, join, parsing and formatting are computed character by           *)
(* character.  An IP address is the sequence of its groups (4 octets or 8  *)
(* hextets) rather than one integer.  Scope ids of IPv6 literals ("%") are *)
(* left out.                                                               *)
(*                                                                         *)
(* copy_to_clipboard and save_to_file only read the output text box and    *)
(* are left out.                                                           *)
(***************************************************************************)
EXTENDS Integers, Sequences, FiniteSets, TLC

VARIABLES
    platform_var,      \* the platform combobox: "Firewall" | "Panorama"
    current_mode_var,  \* "address" | "group"
    pc,                \* which menu or modal dialog has the focus
    names,             \* the names / groups the open second step was given
    output_text,       \* the content of the output text box
    result,            \* outcome of the last handler: "" | "next" | "ok" | error kind
    arg,               \* the argument of a direct function call
    ret                \* the results of direct function calls, in order

vars == <<platform_var, current_mode_var, pc, names, output_text, result, arg, ret>>

(***************************************************************************)
(* Bounds of the model.                                                    *)
(***************************************************************************)
MaxNameLen == 3   \* longest string handed to validate_name directly
MaxPad == 1       \* most blanks put on either side of an address literal
MaxMembers == 3   \* longest members list handed to gen_group_cmd directly
MaxLines == 2     \* most lines of a text box, or rows of a file

(***************************************************************************)
(* Python str and list primitives.                                         *)
(***************************************************************************)
Whitespace == {" ", "\t", "\n", "\r", "\f"}

Range(s) == {s[i] : i \in DOMAIN s}

RECURSIVE lstrip(_)
lstrip(s) ==
    IF s # <<>> /\ Head(s) \in Whitespace THEN lstrip(Tail(s)) ELSE s

RECURSIVE rstrip(_)
rstrip(s) ==
    IF s # <<>> /\ s[Len(s)] \in Whitespace
    THEN rstrip(SubSeq(s, 1, Len(s) - 1))
    ELSE s

strip(s) == rstrip(lstrip(s))

\* s.split(sep) for a one-character sep: always at least one piece.
RECURSIVE split(_, _)
split(s, sep) ==
    IF \A i \in DOMAIN s : s[i] # sep
    THEN <<s>>
    ELSE LET k == CHOOSE i \in DOMAIN s :
                      s[i] = sep /\ \A j \in 1..(i - 1) : s[j] # sep
         IN  <<SubSeq(s, 1, k - 1)>> \o split(SubSeq(s, k + 1, Len(s)), sep)

\* sep.join(parts)
RECURSIVE join(_, _)
join(parts, sep) ==
    IF parts = <<>> THEN <<>>
    ELSE IF Len(parts) = 1 THEN parts[1]
    ELSE parts[1] \o sep \o join(Tail(parts), sep)

\* [x.strip() for x in xs if x.strip()]
RECURSIVE strip_nonblank(_)
strip_nonblank(xs) ==
    IF xs = <<>> THEN <<>>
    ELSE (IF strip(Head(xs)) # <<>> THEN <<strip(Head(xs))>> ELSE <<>>)
         \o strip_nonblank(Tail(xs))

RECURSIVE flatten(_)
flatten(xss) == IF xss = <<>> THEN <<>> ELSE Head(xss) \o flatten(Tail(xss))

HexDigits == <<"0", "1", "2", "3", "4", "5", "6", "7", "8", "9",
               "a", "b", "c", "d", "e", "f">>
UpperHex == <<"0", "1", "2", "3", "4", "5", "6", "7", "8", "9",
              "A", "B", "C", "D", "E", "F">>

isdigit(c) == \E i \in 1..10 : HexDigits[i] = c
ishex(c) == \E i \in 1..16 : HexDigits[i] = c \/ UpperHex[i] = c
digit_value(c) == (CHOOSE i \in 1..16 : HexDigits[i] = c \/ UpperHex[i] = c) - 1

\* int(s, base) for a nonempty s of digits of that base
RECURSIVE int(_, _)
int(s, base) ==
    IF Len(s) = 1 THEN digit_value(s[1])
    ELSE int(SubSeq(s, 1, Len(s) - 1), base) * base + digit_value(s[Len(s)])

\* str(n) for n >= 0, and '%x' % n
RECURSIVE format_int(_, _)
format_int(n, base) ==
    IF n < base THEN <<HexDigits[n + 1]>>
    ELSE format_int(n \div base, base) \o <<HexDigits[(n % base) + 1]>>

(***************************************************************************)
(* What a call returns: a value, or the exception it raised.               *)
(***************************************************************************)
Ok(v) == [ok |-> TRUE, val |-> v, err |-> ""]
Raise(kind) == [ok |-> FALSE, val |-> <<>>, err |-> kind]

(***************************************************************************)
(* validate_name: NAME_PATTERN = re.compile(r'^[^\s/]+$'), used with       *)
(* match().  In Python "$" matches at the end of the string and also just  *)
(* before a newline that ends the string.                                  *)
(***************************************************************************)
\* re.match(r'[^\s/]+', s): the pattern without its "$" anchor
NAME_PATTERN_match_unanchored(s) ==
    s # <<>> /\ s[1] \notin Whitespace \cup {"/"}

NAME_PATTERN_match(s) ==
    LET body == IF s # <<>> /\ s[Len(s)] = "\n"
                THEN SubSeq(s, 1, Len(s) - 1) ELSE s
        plain(t) == t # <<>> /\ \A i \in DOMAIN t : t[i] \notin Whitespace \cup {"/"}
    IN  plain(s) \/ plain(body)

validate_name(name) ==
    IF ~NAME_PATTERN_match(name) THEN Raise("InvalidName") ELSE Ok(name)

validate_member_name(name) == validate_name(name)

(***************************************************************************)
(* ipaddress (standard library), as normalize_ip_or_cidr uses it.  An      *)
(* address is [version, groups]: 4 octets or 8 hextets.  Scope ids         *)
(* ("%eth0") are left out: "%" is not in the alphabet of the inputs.       *)
(***************************************************************************)
IPV4LENGTH == 32
IPV6LENGTH == 128
HEXTET_COUNT == 8

Pow2(n) == 2 ^ n

\* IPv4Address._parse_octet, after the checks of the text: the value
octet_in_range(octet_int) ==
    IF octet_int > 255 THEN Raise("AddressValueError") ELSE Ok(octet_int)

\* IPv4Address._parse_octet
parse_octet(octet_str) ==
    IF octet_str = <<>> THEN Raise("AddressValueError")
    ELSE IF \E i \in DOMAIN octet_str : ~isdigit(octet_str[i])
    THEN Raise("AddressValueError")
    ELSE IF Len(octet_str) > 3 THEN Raise("AddressValueError")
    ELSE IF octet_str # <<"0">> /\ octet_str[1] = "0" THEN Raise("AddressValueError")
    ELSE octet_in_range(int(octet_str, 10))

\* the octets gathered: int.from_bytes(map(cls._parse_octet, octets), 'big')
octets_parsed(parsed) ==
    IF \E i \in DOMAIN parsed : ~parsed[i].ok THEN Raise("AddressValueError")
    ELSE Ok([i \in DOMAIN parsed |-> parsed[i].val])

\* IPv4Address._ip_int_from_string, given ip_str.split('.')
ipv4_from_octets(octets) ==
    IF Len(octets) # 4 THEN Raise("AddressValueError")
    ELSE octets_parsed([i \in DOMAIN octets |-> parse_octet(octets[i])])

\* IPv4Address._ip_int_from_string
IPv4_ip_int_from_string(ip_str) == ipv4_from_octets(split(ip_str, "."))

\* IPv4Address(str)
IPv4Address(addr_str) ==
    IF "/" \in Range(addr_str) THEN Raise("AddressValueError")
    ELSE IPv4_ip_int_from_string(addr_str)

\* IPv6Address._parse_hextet; int('', 16) raises ValueError
parse_hextet(hextet_str) ==
    IF \E i \in DOMAIN hextet_str : ~ishex(hextet_str[i])
    THEN Raise("AddressValueError")
    ELSE IF Len(hextet_str) > 4 THEN Raise("AddressValueError")
    ELSE IF hextet_str = <<>> THEN Raise("AddressValueError")
    ELSE Ok(int(hextet_str, 16))

\* _ip_int_from_string: the hextets before and after the "::" parsed and
\* the skipped ones filled with zeroes
ipv6_hextets_parsed(hextets, parts_hi, parts_skipped) ==
    IF \E i \in DOMAIN hextets : ~hextets[i].ok THEN Raise("AddressValueError")
    ELSE Ok([i \in 1..parts_hi |-> hextets[i].val]
            \o [i \in 1..parts_skipped |-> 0]
            \o [i \in 1..(Len(hextets) - parts_hi) |-> hextets[parts_hi + i].val])

\* _ip_int_from_string: parts[0:parts_hi], the gap, parts[-parts_lo:]
ipv6_from_hextets(parts, parts_hi, parts_lo, parts_skipped) ==
    ipv6_hextets_parsed(
        [i \in 1..(parts_hi + parts_lo) |->
            parse_hextet(IF i <= parts_hi THEN parts[i]
                         ELSE parts[Len(parts) - parts_lo + (i - parts_hi)])],
        parts_hi, parts_skipped)

\* _ip_int_from_string, the branch "skip_index is not None", with parts_hi
\* and parts_lo already lowered for an empty first or last part
ipv6_with_skip(parts, parts_hi, parts_lo) ==
    IF parts[1] = <<>> /\ parts_hi # 0 THEN Raise("AddressValueError")
    ELSE IF parts[Len(parts)] = <<>> /\ parts_lo # 0 THEN Raise("AddressValueError")
    ELSE IF HEXTET_COUNT - (parts_hi + parts_lo) < 1 THEN Raise("AddressValueError")
    ELSE ipv6_from_hextets(parts, parts_hi, parts_lo,
                           HEXTET_COUNT - (parts_hi + parts_lo))

\* _ip_int_from_string, from "skip_index = None" on: skips are the empty
\* parts other than the first and the last
ipv6_from_parts(parts, skips) ==
    IF Len(parts) > HEXTET_COUNT + 1 THEN Raise("AddressValueError")
    ELSE IF Cardinality(skips) > 1 THEN Raise("AddressValueError")
    ELSE IF skips = {}
    THEN IF Len(parts) # HEXTET_COUNT THEN Raise("AddressValueError")
         ELSE IF parts[1] = <<>> \/ parts[Len(parts)] = <<>>
         THEN Raise("AddressValueError")
         ELSE ipv6_from_hextets(parts, Len(parts), 0, 0)
    ELSE ipv6_with_skip(
             parts,
             (CHOOSE i \in skips : TRUE) - 1 - (IF parts[1] = <<>> THEN 1 ELSE 0),
             Len(parts) - (CHOOSE i \in skips : TRUE)
                 - (IF parts[Len(parts)] = <<>> THEN 1 ELSE 0))

\* _ip_int_from_string: an IPv4-style last part becomes two hextets
ipv6_suffix_converted(parts, v4) ==
    IF ~v4.ok THEN Raise("AddressValueError")
    ELSE Ok(SubSeq(parts, 1, Len(parts) - 1)
            \o [i \in 1..2 |-> format_int(v4.val[2 * i - 1] * 256 + v4.val[2 * i], 16)])

\* _ip_int_from_string, given the parts after the IPv4-style suffix is dealt with
ipv6_after_suffix(converted) ==
    IF ~converted.ok THEN Raise("AddressValueError")
    ELSE ipv6_from_parts(converted.val,
             {i \in 2..(Len(converted.val) - 1) : converted.val[i] = <<>>})

\* IPv6Address._ip_int_from_string, given ip_str.split(':')
ipv6_from_split(parts) ==
    IF Len(parts) < 3 THEN Raise("AddressValueError")
    ELSE IF "." \in Range(parts[Len(parts)])
    THEN ipv6_after_suffix(ipv6_suffix_converted(parts, IPv4Address(parts[Len(parts)])))
    ELSE ipv6_after_suffix(Ok(parts))

\* IPv6Address._ip_int_from_string
IPv6_ip_int_from_string(ip_str) == ipv6_from_split(split(ip_str, ":"))

\* IPv6Address(str)
IPv6Address(addr_str) ==
    IF "/" \in Range(addr_str) THEN Raise("AddressValueError")
    ELSE IPv6_ip_int_from_string(addr_str)

\* IPv4Address.__str__: '.'.join(map(str, octets))
IPv4_string_from_ip_int(groups) ==
    join([i \in 1..4 |-> format_int(groups[i], 10)], <<".">>)

\* how many "0" hextets follow one another from index i on
RECURSIVE zero_run(_, _)
zero_run(hextets, i) ==
    IF i > Len(hextets) \/ hextets[i] # <<"0">> THEN 0
    ELSE 1 + zero_run(hextets, i + 1)

\* _compress_hextets, the replacement, without the '' it adds when the zero
\* run ends the address
replace_zero_run_no_tail(hextets, best_start, best_len) ==
    IF best_len > 1
    THEN (IF best_start = 1 THEN << <<>> >> ELSE <<>>)
         \o SubSeq(hextets, 1, best_start - 1)
         \o << <<>> >>
         \o SubSeq(hextets, best_start + best_len, Len(hextets))
    ELSE hextets

\* _compress_hextets: hextets[best_start:best_end] = [''], with '' added in
\* front or behind when the run starts or ends the address
replace_zero_run(hextets, best_start, best_len) ==
    IF best_len > 1
    THEN (IF best_start = 1 THEN << <<>> >> ELSE <<>>)
         \o SubSeq(hextets, 1, best_start - 1)
         \o << <<>> >>
         \o SubSeq(hextets, best_start + best_len, Len(hextets))
         \o (IF best_start + best_len - 1 = Len(hextets) THEN << <<>> >> ELSE <<>>)
    ELSE hextets

\* _compress_hextets, given the length of the zero run at every index: the
\* first of the longest runs is the one replaced
compress_longest(hextets, runs) ==
    replace_zero_run(
        hextets,
        CHOOSE i \in DOMAIN runs :
            /\ \A j \in DOMAIN runs : runs[j] <= runs[i]
            /\ \A j \in 1..(i - 1) : runs[j] < runs[i],
        CHOOSE m \in 0..Len(runs) :
            /\ \E i \in DOMAIN runs : runs[i] = m
            /\ \A i \in DOMAIN runs : runs[i] <= m)

\* IPv6Address._compress_hextets
compress_hextets(hextets) ==
    compress_longest(hextets, [i \in DOMAIN hextets |-> zero_run(hextets, i)])

\* IPv6Address._string_from_ip_int
IPv6_string_from_ip_int(groups) ==
    join(compress_hextets([i \in 1..HEXTET_COUNT |-> format_int(groups[i], 16)]),
         <<":">>)

\* str(ip)
ip_str(ip) ==
    IF ip.version = 4 THEN IPv4_string_from_ip_int(ip.groups)
    ELSE IPv6_string_from_ip_int(ip.groups)

\* ip_address, given what IPv4Address and IPv6Address made of the text
first_address(v4, v6) ==
    IF v4.ok THEN Ok([version |-> 4, groups |-> v4.val])
    ELSE IF v6.ok THEN Ok([version |-> 6, groups |-> v6.val])
    ELSE Raise("ValueError")

\* ipaddress.ip_address: IPv4Address first, then IPv6Address
ip_address(address) == first_address(IPv4Address(address), IPv6Address(address))

\* _prefix_from_prefix_string, the range check of the number
prefix_in_range(prefixlen, max_prefixlen) ==
    IF prefixlen > max_prefixlen THEN Raise("NetmaskValueError") ELSE Ok(prefixlen)

\* _BaseNetwork._prefix_from_prefix_string
prefix_from_prefix_string(prefixlen_str, max_prefixlen) ==
    IF prefixlen_str = <<>> \/ \E i \in DOMAIN prefixlen_str : ~isdigit(prefixlen_str[i])
    THEN Raise("NetmaskValueError")
    ELSE prefix_in_range(int(prefixlen_str, 10), max_prefixlen)

\* The bits of the groups, most significant first.
bits_of(groups, width) ==
    [k \in 1..(Len(groups) * width) |->
        (groups[((k - 1) \div width) + 1] \div Pow2(width - 1 - ((k - 1) % width))) % 2]

\* _count_righthand_zero_bits(number, bits)
RECURSIVE count_righthand_zero_bits(_)
count_righthand_zero_bits(bits) ==
    IF bits = <<>> \/ bits[Len(bits)] = 1 THEN 0
    ELSE 1 + count_righthand_zero_bits(SubSeq(bits, 1, Len(bits) - 1))

\* _prefix_from_ip_int, given the prefix length: the bits before the
\* trailing zeroes must all be ones
leading_ones(bits, prefixlen) ==
    IF \E k \in 1..prefixlen : bits[k] = 0 THEN Raise("ValueError")
    ELSE Ok(prefixlen)

\* _BaseNetwork._prefix_from_ip_int
prefix_from_ip_int(bits) ==
    leading_ones(bits, Len(bits) - count_righthand_zero_bits(bits))

\* _prefix_from_ip_string, given the two tries: a netmask, else a hostmask
netmask_or_hostmask(as_netmask, as_hostmask) ==
    IF as_netmask.ok THEN as_netmask
    ELSE IF as_hostmask.ok THEN as_hostmask
    ELSE Raise("NetmaskValueError")

\* _prefix_from_ip_string, given the bits of the mask
prefix_from_mask_bits(bits) ==
    netmask_or_hostmask(prefix_from_ip_int(bits),
                        prefix_from_ip_int([k \in DOMAIN bits |-> 1 - bits[k]]))

\* _prefix_from_ip_string, given the mask parsed like an address
prefix_from_parsed_mask(parsed) ==
    IF ~parsed.ok THEN Raise("NetmaskValueError")
    ELSE prefix_from_mask_bits(bits_of(parsed.val, 8))

\* _BaseNetwork._prefix_from_ip_string
prefix_from_ip_string(mask_str) ==
    prefix_from_parsed_mask(IPv4_ip_int_from_string(mask_str))

\* _make_netmask, given what _prefix_from_prefix_string made of the text:
\* only IPv4Network goes on to a dotted netmask or hostmask
netmask_fallback(mask_str, version, prefixlen) ==
    IF version = 6 \/ prefixlen.ok THEN prefixlen
    ELSE prefix_from_ip_string(mask_str)

\* IPv4Network._make_netmask / IPv6Network._make_netmask for a str
make_netmask(mask_str, version) ==
    netmask_fallback(mask_str, version,
        prefix_from_prefix_string(mask_str,
                                  IF version = 4 THEN IPV4LENGTH ELSE IPV6LENGTH))

\* the address kept as it is: the netmask is not applied
and_netmask_skipped(groups, width, prefixlen) == groups

\* int(network_address) & int(netmask), group by group
and_netmask(groups, width, prefixlen) ==
    [i \in DOMAIN groups |->
        (groups[i] \div Pow2(width - (IF prefixlen >= i * width THEN width
                                      ELSE IF prefixlen <= (i - 1) * width THEN 0
                                      ELSE prefixlen - (i - 1) * width)))
        * Pow2(width - (IF prefixlen >= i * width THEN width
                        ELSE IF prefixlen <= (i - 1) * width THEN 0
                        ELSE prefixlen - (i - 1) * width))]

\* the end of IPv4Network.__init__ / IPv6Network.__init__: host bits are an
\* error when strict, and masked off otherwise
network_checked(version, groups, network, prefixlen, strict) ==
    IF network # groups /\ strict THEN Raise("ValueError")
    ELSE Ok([network_address |-> [version |-> version, groups |-> network],
             prefixlen |-> prefixlen])

\* IPv4Network / IPv6Network, given the address and the mask parsed
network_from_parts(version, addr, mask, strict) ==
    IF ~addr.ok THEN Raise("AddressValueError")
    ELSE IF ~mask.ok THEN Raise("NetmaskValueError")
    ELSE network_checked(version, addr.val,
                         and_netmask(addr.val, IF version = 4 THEN 8 ELSE 16, mask.val),
                         mask.val, strict)

\* IPv4Network / IPv6Network, given _split_addr_prefix's address.split('/'):
\* one "/" at most, and no "/" means the full prefix length
network_from_split(pieces, version, strict) ==
    IF Len(pieces) > 2 THEN Raise("AddressValueError")
    ELSE network_from_parts(
             version,
             IF version = 4 THEN IPv4Address(pieces[1]) ELSE IPv6Address(pieces[1]),
             IF Len(pieces) = 2 THEN make_netmask(pieces[2], version)
             ELSE Ok(IF version = 4 THEN IPV4LENGTH ELSE IPV6LENGTH),
             strict)

\* IPv4Network(address, strict) / IPv6Network(address, strict) for a str
IPNetwork(address, version, strict) ==
    network_from_split(split(address, "/"), version, strict)

\* ip_network, given what IPv4Network and IPv6Network made of the text: only
\* AddressValueError and NetmaskValueError let the next one be tried
first_network(v4, v6) ==
    IF v4.err \notin {"AddressValueError", "NetmaskValueError"} THEN v4
    ELSE IF v6.err \notin {"AddressValueError", "NetmaskValueError"} THEN v6
    ELSE Raise("ValueError")

\* ipaddress.ip_network: IPv4Network first, then IPv6Network
ip_network(address, strict) ==
    first_network(IPNetwork(address, 4, strict), IPNetwork(address, 6, strict))

(***************************************************************************)
(* normalize_ip_or_cidr                                                    *)
(***************************************************************************)
\* line 33: f"{net.network_address}/{net.prefixlen}"
format_network(net) ==
    IF ~net.ok THEN Raise("InvalidAddress")
    ELSE Ok(ip_str(net.val.network_address) \o <<"/">>
            \o format_int(net.val.prefixlen, 10))

\* lines 36-37 with the two defaults exchanged
format_address_swapped(ip) ==
    IF ~ip.ok THEN Raise("InvalidAddress")
    ELSE Ok(ip_str(ip.val) \o <<"/">>
            \o format_int(IF ip.val.version = 4 THEN 128 ELSE 32, 10))

\* lines 36-37: default = 32 if ip.version == 4 else 128; f"{ip}/{default}"
format_address(ip) ==
    IF ~ip.ok THEN Raise("InvalidAddress")
    ELSE Ok(ip_str(ip.val) \o <<"/">>
            \o format_int(IF ip.val.version = 4 THEN 32 ELSE 128, 10))

\* normalize_ip_or_cidr after v = value.strip()
normalize_stripped(v) ==
    IF v = <<>> THEN Raise("InvalidAddress")
    ELSE IF "/" \in Range(v) THEN format_network(ip_network(v, FALSE))
    ELSE format_address(ip_address(v))

normalize_ip_or_cidr(value) == normalize_stripped(strip(value))

(***************************************************************************)
(* The command generators.                                                 *)
(***************************************************************************)
SetAddress == <<"s", "e", "t", " ", "a", "d", "d", "r", "e", "s", "s">>
SetSharedAddress == <<"s", "e", "t", " ", "s", "h", "a", "r", "e", "d", " ", "a", "d", "d", "r", "e", "s", "s">>
IpNetmask == <<"i", "p", "-", "n", "e", "t", "m", "a", "s", "k">>
SetAddressGroup == <<"s", "e", "t", " ", "a", "d", "d", "r", "e", "s", "s", "-", "g", "r", "o", "u", "p">>
SetSharedAddressGroup == <<"s", "e", "t", " ", "s", "h", "a", "r", "e", "d", " ", "a", "d", "d", "r", "e", "s", "s", "-", "g", "r", "o", "u", "p">>
Static == <<"s", "t", "a", "t", "i", "c">>

Platforms == {"Firewall", "Panorama"}

\* gen_address_cmd with the two templates exchanged
gen_address_cmd_swapped(platform, name, cidr) ==
    IF platform = "Firewall"
    THEN SetSharedAddress \o <<" ">> \o name \o <<" ">> \o IpNetmask \o <<" ">> \o cidr
    ELSE SetAddress \o <<" ">> \o name \o <<" ">> \o IpNetmask \o <<" ">> \o cidr

gen_address_cmd(platform, name, cidr) ==
    IF platform = "Firewall"
    THEN SetAddress \o <<" ">> \o name \o <<" ">> \o IpNetmask \o <<" ">> \o cidr
    ELSE SetSharedAddress \o <<" ">> \o name \o <<" ">> \o IpNetmask \o <<" ">> \o cidr

\* the loop of gen_group_cmd: cmds so far, members still to visit
RECURSIVE gen_group_loop(_, _, _, _)
gen_group_loop(prefix, group_name, members, cmds) ==
    IF members = <<>> THEN Ok(cmds)
    ELSE LET m == strip(Head(members))
         IN  IF m = <<>> THEN gen_group_loop(prefix, group_name, Tail(members), cmds)
             ELSE IF ~validate_member_name(m).ok THEN Raise("InvalidName")
             ELSE gen_group_loop(prefix, group_name, Tail(members),
                      Append(cmds, prefix \o <<" ">> \o group_name \o <<" ">>
                                   \o Static \o <<" ">> \o m))

\* gen_group_cmd skipping an invalid member instead of raising
RECURSIVE gen_group_loop_skipping(_, _, _, _)
gen_group_loop_skipping(prefix, group_name, members, cmds) ==
    IF members = <<>> THEN Ok(cmds)
    ELSE LET m == strip(Head(members))
         IN  IF m = <<>> \/ ~validate_member_name(m).ok
             THEN gen_group_loop_skipping(prefix, group_name, Tail(members), cmds)
             ELSE gen_group_loop_skipping(prefix, group_name, Tail(members),
                      Append(cmds, prefix \o <<" ">> \o group_name \o <<" ">>
                                   \o Static \o <<" ">> \o m))

gen_group_cmd_skipping(platform, group_name, members) ==
    gen_group_loop_skipping(IF platform = "Firewall" THEN SetAddressGroup
                            ELSE SetSharedAddressGroup,
                            group_name, members, <<>>)

gen_group_cmd(platform, group_name, members) ==
    gen_group_loop(IF platform = "Firewall" THEN SetAddressGroup
                   ELSE SetSharedAddressGroup,
                   group_name, members, <<>>)

(***************************************************************************)
(* The output box, the text boxes and the files.                           *)
(***************************************************************************)
\* show_output without the delete("1.0", END) before the insert
show_output_no_delete(cmds) ==
    IF cmds # <<>> THEN output_text \o join(cmds, <<"\n">>) \o <<"\n">>
    ELSE output_text

\* show_output: the new content of output_text
show_output(cmds) ==
    IF cmds # <<>> THEN join(cmds, <<"\n">>) \o <<"\n">> ELSE <<>>

\* The lines a user may type into the name box or the group box, or a
\* names file may hold: a name, a csv row whose second cell has a "/", a
\* name with a blank inside, a blank line.
NameLines ==
    {<<" ", "a">>,
     <<"a", ",", "/">>,
     <<"a", " ", "b">>,
     <<>>}

\* The lines of the address box or of an IP file: a network with host bits
\* set and a blank in front, an IPv6 address, a malformed address.
IpLines ==
    {<<" ", "1", ".", "1", ".", "1", ".", "9", "/", "2", "4">>,
     <<":", ":", "1">>,
     <<"1", ".", "1">>}

\* The lines of the members box or of a members file.
MemberLines ==
    {<<",", "b">>,
     <<"a", ",", "b">>,
     <<",">>,
     <<>>,
     <<"a", ",", "b", " ", "c">>}

\* box.get("1.0", END).splitlines(): up to MaxLines lines
Boxes(lines) == UNION {[1..k -> lines] : k \in 0..MaxLines}

\* A file the user picks: its extension and its lines without their "\n".
\* _ask_file returns "" when the dialog is cancelled.
Files(lines) == [ext : {".csv", ".txt"}, lines : Boxes(lines)]
NoFile == [ext |-> "", lines |-> <<>>]

\* _read_lines_plaintext
read_lines_plaintext(file) == file.lines

\* _read_csv_rows: csv.reader gives [] for an empty line and the cells
\* between the commas otherwise (no quoting in these files); cells stripped.
read_csv_rows(file) ==
    [i \in DOMAIN file.lines |->
        IF file.lines[i] = <<>> THEN <<>>
        ELSE LET row == split(file.lines[i], ",")
             IN  [j \in DOMAIN row |-> strip(row[j])]]

\* the first cells of the rows that have cells
RECURSIVE first_cells(_)
first_cells(rows) ==
    IF rows = <<>> THEN <<>>
    ELSE (IF Head(rows) = <<>> THEN <<>> ELSE << Head(rows)[1] >>)
         \o first_cells(Tail(rows))

\* read_names_from_file
read_names_from_file(file) ==
    LET found == IF file.ext = ".csv"
                 THEN strip_nonblank(first_cells(read_csv_rows(file)))
                 ELSE strip_nonblank(read_lines_plaintext(file))
    IN  IF \E i \in DOMAIN found : ~validate_name(found[i]).ok
        THEN Raise("InvalidName")
        ELSE IF found = <<>> THEN Raise("EmptyBatch")
        ELSE Ok(found)

\* read_ips_from_file
read_ips_from_file(file) ==
    LET raw == IF file.ext = ".csv"
               THEN strip_nonblank(first_cells(read_csv_rows(file)))
               ELSE strip_nonblank(read_lines_plaintext(file))
        ips == [i \in DOMAIN raw |-> normalize_ip_or_cidr(raw[i])]
    IN  IF \E i \in DOMAIN ips : ~ips[i].ok THEN Raise("InvalidAddress")
        ELSE IF ips = <<>> THEN Raise("EmptyBatch")
        ELSE Ok([i \in DOMAIN ips |-> ips[i].val])

\* read_members_from_file, csv branch: one members list per row that has cells
RECURSIVE csv_member_rows(_)
csv_member_rows(rows) ==
    IF rows = <<>> THEN <<>>
    ELSE (IF Head(rows) = <<>> THEN <<>>
          ELSE << strip_nonblank(Tail(Head(rows))) >>)
         \o csv_member_rows(Tail(rows))

\* read_members_from_file, txt branch: one members list per line, [] for a
\* blank line
txt_member_rows(lines) ==
    [i \in DOMAIN lines |->
        IF strip(lines[i]) = <<>> THEN <<>>
        ELSE strip_nonblank(split(lines[i], ","))]

\* read_members_from_file
read_members_from_file(file) ==
    LET lines_members == IF file.ext = ".csv"
                         THEN csv_member_rows(read_csv_rows(file))
                         ELSE txt_member_rows(read_lines_plaintext(file))
    IN  IF \E i \in DOMAIN lines_members : \E j \in DOMAIN lines_members[i] :
               ~validate_member_name(lines_members[i][j]).ok
        THEN Raise("InvalidName")
        ELSE IF lines_members = <<>> THEN Raise("EmptyBatch")
        ELSE Ok(lines_members)

\* The readers and normalize_ip_or_cidr tabulated over the inputs of the
\* model, so that each is computed once (f @@ <<>> is f, enumerated).
normalized == [v \in {strip(l) : l \in IpLines} |-> normalize_ip_or_cidr(v)] @@ <<>>
names_read == [file \in Files(NameLines) |-> read_names_from_file(file)] @@ <<>>
ips_read == [file \in Files(IpLines) |-> read_ips_from_file(file)] @@ <<>>
members_read == [file \in Files(MemberLines) |-> read_members_from_file(file)] @@ <<>>

\* [gen_address_cmd(platform, n, ip) for n, ip in zip(names, ips)]
address_cmds(platform, ns, ips) ==
    [i \in 1..(IF Len(ns) < Len(ips) THEN Len(ns) ELSE Len(ips)) |->
        gen_address_cmd(platform, ns[i], ips[i])]

\* for g, members in zip(groups, all_members): cmds.extend(gen_group_cmd(...));
\* an exception of gen_group_cmd leaves the handler before show_output.
group_cmds(platform, groups, all_members) ==
    LET n == IF Len(groups) < Len(all_members) THEN Len(groups) ELSE Len(all_members)
        each == [i \in 1..n |-> gen_group_cmd(platform, groups[i], all_members[i])]
    IN  IF \E i \in 1..n : ~each[i].ok THEN Raise("InvalidName")
        ELSE Ok(flatten([i \in 1..n |-> each[i].val]))

(***************************************************************************)
(* The handlers.  A modal dialog (grab_set, or a file dialog) keeps the    *)
(* main window from being used, so the platform and the menu change only   *)
(* while no dialog is open.                                                *)
(***************************************************************************)
Menus == {"level1", "addr_menu", "group_menu"}
Errors == {"InvalidName", "InvalidAddress", "CountMismatch", "EmptyBatch",
           "MissingMember"}

Init ==
    /\ platform_var = "Firewall"
    /\ current_mode_var = "address"
    /\ pc = "level1"
    /\ names = <<>>
    /\ output_text = <<>>
    /\ result = ""
    /\ arg = <<>>
    /\ ret = <<>>

\* the platform combobox (readonly, two values)
select_platform(p) ==
    /\ pc \in Menus
    /\ platform_var' = p
    /\ result' = ""
    /\ UNCHANGED <<current_mode_var, pc, names, output_text, arg, ret>>

show_level1 ==
    /\ pc \in {"addr_menu", "group_menu"}
    /\ pc' = "level1"
    /\ result' = ""
    /\ UNCHANGED <<platform_var, current_mode_var, names, output_text, arg, ret>>

show_addr_obj ==
    /\ pc = "level1"
    /\ current_mode_var' = "address"
    /\ pc' = "addr_menu"
    /\ result' = ""
    /\ UNCHANGED <<platform_var, names, output_text, arg, ret>>

show_addr_group ==
    /\ pc = "level1"
    /\ current_mode_var' = "group"
    /\ pc' = "group_menu"
    /\ result' = ""
    /\ UNCHANGED <<platform_var, names, output_text, arg, ret>>

\* input_address_manual: the names dialog opens
input_address_manual ==
    /\ pc = "addr_menu"
    /\ pc' = "addr_names"
    /\ result' = ""
    /\ UNCHANGED <<platform_var, current_mode_var, names, output_text, arg, ret>>

\* input_group_manual: the groups dialog opens
input_group_manual ==
    /\ pc = "group_menu"
    /\ pc' = "group_names"
    /\ result' = ""
    /\ UNCHANGED <<platform_var, current_mode_var, names, output_text, arg, ret>>

\* The user closes a dialog window without pressing its button.
close_dialog ==
    /\ pc \in {"addr_names", "addr_ips", "group_names", "group_members"}
    /\ pc' = IF pc \in {"addr_names", "addr_ips"} THEN "addr_menu" ELSE "group_menu"
    /\ names' = <<>>
    /\ result' = ""
    /\ UNCHANGED <<platform_var, current_mode_var, output_text, arg, ret>>

\* the first step without validate_name
first_step_unvalidated(box) ==
    IF strip_nonblank(box) = <<>> THEN Raise("EmptyBatch")
    ELSE Ok(strip_nonblank(box))

\* the first step of both manual dialogs: next_to_ip / next_to_members
first_step(box) ==
    LET found == strip_nonblank(box)
    IN  IF found = <<>> THEN Raise("EmptyBatch")
        ELSE IF \E i \in DOMAIN found : ~validate_name(found[i]).ok
        THEN Raise("InvalidName")
        ELSE Ok(found)

first_step_done == [box \in Boxes(NameLines) |-> first_step(box)] @@ <<>>

next_to_ip(box) ==
    /\ pc = "addr_names"
    /\ LET checked == first_step_done[box]
       IN  IF checked.ok
           THEN /\ pc' = "addr_ips"
                /\ names' = checked.val
                /\ result' = "next"
           ELSE /\ result' = checked.err
                /\ UNCHANGED <<pc, names>>
    /\ UNCHANGED <<platform_var, current_mode_var, output_text, arg, ret>>

next_to_members(box) ==
    /\ pc = "group_names"
    /\ LET checked == first_step_done[box]
       IN  IF checked.ok
           THEN /\ pc' = "group_members"
                /\ names' = checked.val
                /\ result' = "next"
           ELSE /\ result' = checked.err
                /\ UNCHANGED <<pc, names>>
    /\ UNCHANGED <<platform_var, current_mode_var, output_text, arg, ret>>

\* confirm_ips without the comparison of the two counts
checked_ips_uncounted(box) ==
    LET ips_raw == strip_nonblank(box)
        ips == [i \in DOMAIN ips_raw |-> normalized[ips_raw[i]]]
    IN  IF ips_raw = <<>> THEN Raise("EmptyBatch")
        ELSE IF \E i \in DOMAIN ips : ~ips[i].ok THEN Raise("InvalidAddress")
        ELSE Ok([i \in DOMAIN ips |-> ips[i].val])

\* the stripped non-blank lines of the address box, tabulated
box_ips == [box \in Boxes(IpLines) |-> strip_nonblank(box)] @@ <<>>

\* the try block of confirm_ips
checked_ips(box) ==
    LET ips_raw == box_ips[box]
        ips == [i \in DOMAIN ips_raw |-> normalized[ips_raw[i]]]
    IN  IF ips_raw = <<>> THEN Raise("EmptyBatch")
        ELSE IF Len(ips_raw) # Len(names) THEN Raise("CountMismatch")
        ELSE IF \E i \in DOMAIN ips : ~ips[i].ok THEN Raise("InvalidAddress")
        ELSE Ok([i \in DOMAIN ips |-> ips[i].val])

confirm_ips(box) ==
    /\ pc = "addr_ips"
    /\ LET ips == checked_ips(box)
       IN  IF ips.ok
           THEN /\ output_text' = show_output(address_cmds(platform_var, names, ips.val))
                /\ result' = "ok"
                /\ pc' = "addr_menu"
                /\ names' = <<>>
           ELSE /\ result' = ips.err
                /\ UNCHANGED <<pc, names, output_text>>
    /\ UNCHANGED <<platform_var, current_mode_var, arg, ret>>

\* the loop over mem_lines in confirm_groups: the first bad line raises
RECURSIVE checked_member_lines(_)
checked_member_lines(mem_lines) ==
    IF mem_lines = <<>> THEN Ok(<<>>)
    ELSE LET members == strip_nonblank(split(Head(mem_lines), ","))
             rest == checked_member_lines(Tail(mem_lines))
         IN  IF members = <<>> THEN Raise("MissingMember")
             ELSE IF \E j \in DOMAIN members : ~validate_member_name(members[j]).ok
             THEN Raise("InvalidName")
             ELSE IF ~rest.ok THEN rest
             ELSE Ok(<<members>> \o rest.val)

\* the try block of confirm_groups
checked_members(box) ==
    LET mem_lines == strip_nonblank(box)
    IN  IF mem_lines = <<>> THEN Raise("EmptyBatch")
        ELSE IF Len(mem_lines) # Len(names) THEN Raise("CountMismatch")
        ELSE checked_member_lines(mem_lines)

confirm_groups(box) ==
    /\ pc = "group_members"
    /\ LET all_members == checked_members(box)
           cmds == group_cmds(platform_var, names, all_members.val)
       IN  IF ~all_members.ok
           THEN /\ result' = all_members.err
                /\ UNCHANGED <<pc, names, output_text>>
           ELSE IF cmds.ok
           THEN /\ output_text' = show_output(cmds.val)
                /\ result' = "ok"
                /\ pc' = "group_menu"
                /\ names' = <<>>
           ELSE /\ result' = cmds.err
                /\ UNCHANGED <<pc, names, output_text>>
    /\ UNCHANGED <<platform_var, current_mode_var, arg, ret>>

\* import_file_two_step: the first file dialog opens.  (Its two menu buttons
\* are commented out in show_addr_obj and show_addr_group; the handler is
\* modelled as if they were there.)
import_file_two_step ==
    /\ pc \in {"addr_menu", "group_menu"}
    /\ pc' = IF current_mode_var = "address" THEN "import_addr_names"
             ELSE "import_group_names"
    /\ result' = ""
    /\ UNCHANGED <<platform_var, current_mode_var, names, output_text, arg, ret>>

\* where an import handler returns to
import_return == IF current_mode_var = "address" THEN "addr_menu" ELSE "group_menu"

\* import_address_two_step, first step: the names file
import_address_names(file) ==
    /\ pc = "import_addr_names"
    /\ LET read == names_read[file]
       IN  IF file = NoFile
           THEN pc' = import_return /\ result' = "" /\ UNCHANGED names
           ELSE IF read.ok
           THEN /\ pc' = "import_addr_ips"
                /\ names' = read.val
                /\ result' = "next"
           ELSE /\ pc' = import_return
                /\ result' = read.err
                /\ UNCHANGED names
    /\ UNCHANGED <<platform_var, current_mode_var, output_text, arg, ret>>

\* import_address_two_step, second step: the IP file
import_address_ips(file) ==
    /\ pc = "import_addr_ips"
    /\ pc' = import_return
    /\ names' = <<>>
    /\ IF file = NoFile
       THEN result' = "" /\ UNCHANGED output_text
       ELSE LET ips_raw == ips_read[file]
            IN  IF ~ips_raw.ok
                THEN result' = ips_raw.err /\ UNCHANGED output_text
                ELSE IF Len(names) # Len(ips_raw.val)
                THEN result' = "CountMismatch" /\ UNCHANGED output_text
                ELSE /\ output_text' = show_output(address_cmds(platform_var, names,
                                                                ips_raw.val))
                     /\ result' = "ok"
    /\ UNCHANGED <<platform_var, current_mode_var, arg, ret>>

\* import_group_two_step, first step: the groups file
import_group_names(file) ==
    /\ pc = "import_group_names"
    /\ LET read == names_read[file]
       IN  IF file = NoFile
           THEN pc' = import_return /\ result' = "" /\ UNCHANGED names
           ELSE IF read.ok
           THEN /\ pc' = "import_group_members"
                /\ names' = read.val
                /\ result' = "next"
           ELSE /\ pc' = import_return
                /\ result' = read.err
                /\ UNCHANGED names
    /\ UNCHANGED <<platform_var, current_mode_var, output_text, arg, ret>>

\* import_group_two_step, second step: the members file
import_group_members(file) ==
    /\ pc = "import_group_members"
    /\ pc' = import_return
    /\ names' = <<>>
    /\ IF file = NoFile
       THEN result' = "" /\ UNCHANGED output_text
       ELSE LET members_lines == members_read[file]
                cmds == group_cmds(platform_var, names, members_lines.val)
            IN  IF ~members_lines.ok
                THEN result' = members_lines.err /\ UNCHANGED output_text
                ELSE IF Len(members_lines.val) # Len(names)
                THEN result' = "CountMismatch" /\ UNCHANGED output_text
                ELSE IF \E i \in DOMAIN members_lines.val : Len(members_lines.val[i]) = 0
                THEN result' = "MissingMember" /\ UNCHANGED output_text
                ELSE IF ~cmds.ok
                THEN result' = cmds.err /\ UNCHANGED output_text
                ELSE /\ output_text' = show_output(cmds.val)
                     /\ result' = "ok"
    /\ UNCHANGED <<platform_var, current_mode_var, arg, ret>>

Next ==
    \/ \E p \in Platforms : select_platform(p)
    \/ show_level1
    \/ show_addr_obj
    \/ show_addr_group
    \/ input_address_manual
    \/ input_group_manual
    \/ close_dialog
    \/ \E box \in Boxes(NameLines) : next_to_ip(box)
    \/ \E box \in Boxes(IpLines) : confirm_ips(box)
    \/ \E box \in Boxes(NameLines) : next_to_members(box)
    \/ \E box \in Boxes(MemberLines) : confirm_groups(box)
    \/ import_file_two_step
    \/ \E file \in Files(NameLines) \cup {NoFile} : import_address_names(file)
    \/ \E file \in Files(IpLines) \cup {NoFile} : import_address_ips(file)
    \/ \E file \in Files(NameLines) \cup {NoFile} : import_group_names(file)
    \/ \E file \in Files(MemberLines) \cup {NoFile} : import_group_members(file)

Spec == Init /\ [][Next]_vars

(***************************************************************************)
(* Direct calls of validate_name, normalize_ip_or_cidr and gen_group_cmd:  *)
(* the argument is drawn at the start, a step makes the call.              *)
(***************************************************************************)
ui_idle ==
    /\ platform_var = "Firewall"
    /\ current_mode_var = "address"
    /\ names = <<>>
    /\ output_text = <<>>
    /\ result = ""

ui_unchanged == UNCHANGED <<platform_var, current_mode_var, pc, names, output_text,
                            result, arg>>

\* Every string of up to MaxNameLen characters over a letter, the two
\* characters the error message names, a tab and a newline.
NameAlphabet == {"a", " ", "/", "\t", "\n"}
NameStrings == UNION {[1..k -> NameAlphabet] : k \in 0..MaxNameLen}

InitValidate ==
    /\ ui_idle
    /\ pc = "validate_name"
    /\ arg \in NameStrings
    /\ ret = <<>>

call_validate_name ==
    /\ pc = "validate_name"
    /\ ret = <<>>
    /\ ret' = <<validate_name(arg)>>
    /\ ui_unchanged

SpecValidate == InitValidate /\ [][call_validate_name]_vars

\* IPv4 texts: every choice of four octet texts, and a text of three and of
\* five octets.
V4Addresses ==
    {join(<<a, b, c, d>>, <<".">>) :
        a \in {<<"1", "0">>,
              <<"0">>},
        b \in {<<"0">>,
              <<"2", "5", "5">>,
              <<"0", "7">>},
        c \in {<<"1", "2", "8">>,
              <<"3">>,
              <<>>},
        d \in {<<"1">>,
              <<"2", "5", "4">>,
              <<"1", "a">>}}
    \cup {<<"1", "0", ".", "0", ".", "3">>,
          <<"1", "0", ".", "0", ".", "3", ".", "1", ".", "1">>}

\* What may follow an IPv4 text: nothing, a prefix length, a netmask, a
\* hostmask, or something that is none of them.
V4Masks ==
    {<<>>,
     <<"/", "0">>,
     <<"/", "8">>,
     <<"/", "9">>,
     <<"/", "2", "3">>,
     <<"/", "3", "1">>,
     <<"/", "3", "2">>,
     <<"/", "3", "3">>,
     <<"/", "0", "2", "4">>,
     <<"/">>,
     <<"/", "2", "5", "5", ".", "2", "5", "5", ".", "2", "5", "4", ".", "0">>,
     <<"/", "0", ".", "0", ".", "1", ".", "2", "5", "5">>,
     <<"/", "2", "5", "5", ".", "0", ".", "2", "5", "5", ".", "0">>,
     <<"/", "8", "/", "8">>}

\* IPv6 texts: up to two hextets on either side of "::", eight hextets in
\* full, an IPv4-style suffix, and malformed texts.
V6Hextets == {<<"0">>, <<"1">>, <<"0", "D", "b", "8">>}
V6Short == UNION {[1..k -> V6Hextets] : k \in 0..2}
V6Middles ==
    {<< <<"0">>, <<"0">>, <<"0">>, <<"0">> >>,
     << <<"0">>, <<"1">>, <<"0">>, <<"0">> >>,
     << <<"1">>, <<"0">>, <<"0">>, <<"1">> >>,
     << <<"0", "D", "b", "8">>, <<"0">>, <<"0">>, <<"f", "F", "f", "F">> >>}
V6Addresses ==
    {join(l, <<":">>) \o <<":", ":">> \o join(r, <<":">>) : l \in V6Short, r \in V6Short}
    \cup {join(a \o m \o b, <<":">>) :
              a \in [1..2 -> {<<"0">>, <<"1">>}], m \in V6Middles,
              b \in [1..2 -> {<<"0">>, <<"1">>}]}
    \cup {<<":", ":", "f", "f", "f", "f", ":", "1", "0", ".", "0", ".", "3", ".", "1">>,
          <<":", ":", "1", "0", ".", "0", ".", "3", ".", "1">>,
          <<"1", ":", "2", ":", "3", ":", "4", ":", "5", ":", "6", ":", "1", "0", ".", "0", ".", "3", ".", "1">>,
          <<":", ":", ":">>,
          <<"1", ":", "2">>,
          <<"0", "0", "0", "0", "1", ":", ":">>,
          <<"g", ":", ":">>}

V6Masks ==
    {<<>>,
     <<"/", "0">>,
     <<"/", "1", "6">>,
     <<"/", "1", "2", "0">>,
     <<"/", "1", "2", "7">>,
     <<"/", "1", "2", "8">>,
     <<"/", "1", "2", "9">>,
     <<"/", "0", "1", "2", "8">>}

\* k blanks in front, k line ends behind
RECURSIVE padded(_, _)
padded(s, k) == IF k = 0 THEN s ELSE padded(<<" ">> \o s \o <<"\n">>, k - 1)

AddressStrings ==
    {padded(a \o m, k) : a \in V4Addresses, m \in V4Masks, k \in 0..MaxPad}
    \cup {padded(a \o m, k) : a \in V6Addresses, m \in V6Masks, k \in 0..MaxPad}

InitNormalize ==
    /\ ui_idle
    /\ pc = "normalize_ip_or_cidr"
    /\ arg \in AddressStrings
    /\ ret = <<>>

call_normalize ==
    /\ pc = "normalize_ip_or_cidr"
    /\ ret = <<>>
    /\ ret' = <<normalize_ip_or_cidr(arg)>>
    /\ ui_unchanged

\* normalize_ip_or_cidr called on its own result
call_normalize_again ==
    /\ pc = "normalize_ip_or_cidr"
    /\ Len(ret) = 1
    /\ ret[1].ok
    /\ ret' = Append(ret, normalize_ip_or_cidr(ret[1].val))
    /\ ui_unchanged

NextNormalize == call_normalize \/ call_normalize_again

SpecNormalize == InitNormalize /\ [][NextNormalize]_vars

\* The entries of a members list: names, names to strip, blank entries,
\* a name with a blank inside, a name with a "/".
MemberEntries ==
    {<<"a">>,
     <<" ", "b", " ">>,
     <<>>,
     <<" ">>,
     <<"a", " ", "b">>,
     <<"a", "/">>}

InitGroupCmd ==
    /\ ui_idle
    /\ pc = "gen_group_cmd"
    /\ arg \in [platform : Platforms, group_name : {<<"g">>},
                members : UNION {[1..k -> MemberEntries] : k \in 0..MaxMembers}]
    /\ ret = <<>>

call_gen_group_cmd ==
    /\ pc = "gen_group_cmd"
    /\ ret = <<>>
    /\ ret' = <<gen_group_cmd(arg.platform, arg.group_name, arg.members)>>
    /\ ui_unchanged

SpecGroupCmd == InitGroupCmd /\ [][call_gen_group_cmd]_vars

(***************************************************************************)
(* Properties of validate_name, checked under SpecValidate.                *)
(***************************************************************************)
validated == pc = "validate_name" /\ ret # <<>>

\* C1, as the specification states it: validate_name rejects every string
\* that contains a space or "/", rejects the empty string, and accepts every
\* nonempty string that contains neither a space nor "/".
ValidateNameSpaceSlashOnly ==
    validated =>
        /\ (" " \in Range(arg) \/ "/" \in Range(arg)) => ~ret[1].ok
        /\ arg = <<>> => ~ret[1].ok
        /\ (arg # <<>> /\ " " \notin Range(arg) /\ "/" \notin Range(arg)) => ret[1].ok

\* C1, amended: validate_name rejects every string that contains a space or
\* "/", rejects the empty string, and accepts every nonempty string that
\* contains no whitespace character at all (space, tab, newline, ...) and
\* no "/".
ValidateNameNoWhitespaceNoSlash ==
    validated =>
        /\ (" " \in Range(arg) \/ "/" \in Range(arg)) => ~ret[1].ok
        /\ arg = <<>> => ~ret[1].ok
        /\ (arg # <<>> /\ Range(arg) \cap (Whitespace \cup {"/"}) = {}) => ret[1].ok

\* a name of several characters was accepted
ValidateNameAccepted == validated /\ ret[1].ok /\ Len(arg) >= 2

(***************************************************************************)
(* Properties of normalize_ip_or_cidr, checked under SpecNormalize.        *)
(***************************************************************************)
has_suffix(s, suffix) ==
    /\ Len(s) >= Len(suffix)
    /\ SubSeq(s, Len(s) - Len(suffix) + 1, Len(s)) = suffix

without_suffix(s, suffix) == SubSeq(s, 1, Len(s) - Len(suffix))

\* the text is a valid address without a mask
bare_address(text) == ip_address(text)

\* C2, as the specification states it: for every valid address string
\* without a mask the result is exactly the input text followed by "/32"
\* (IPv4) or "/128" (IPv6).
BareAddressKeepsItsText ==
    (Len(ret) >= 1 /\ bare_address(arg).ok) =>
        /\ ret[1].ok
        /\ ret[1].val = arg \o (IF bare_address(arg).val.version = 4
                                THEN <<"/", "3", "2">> ELSE <<"/", "1", "2", "8">>)

\* C2, amended: for every valid address string without a mask the call
\* succeeds; an IPv4 text comes back unchanged followed by "/32"; an IPv6
\* text comes back as a text of the same address (not always the same
\* characters) followed by "/128".
BareAddressGetsFullPrefix ==
    (Len(ret) >= 1 /\ bare_address(arg).ok) =>
        /\ ret[1].ok
        /\ bare_address(arg).val.version = 4 =>
               ret[1].val = arg \o <<"/", "3", "2">>
        /\ bare_address(arg).val.version = 6 =>
               /\ has_suffix(ret[1].val, <<"/", "1", "2", "8">>)
               /\ bare_address(without_suffix(ret[1].val, <<"/", "1", "2", "8">>))
                      = bare_address(arg)

\* an IPv6 address was normalized into other characters than it was given in
BareIPv6Rewritten ==
    /\ Len(ret) >= 1
    /\ bare_address(arg).ok
    /\ bare_address(arg).val.version = 6
    /\ ret[1].ok
    /\ ret[1].val # arg \o <<"/", "1", "2", "8">>

\* the text is n/p with n a valid address and p a prefix length in digits
\* within the address family's width
prefix_digits(p) == p # <<>> /\ \A i \in DOMAIN p : p[i] \in {"0", "1", "2", "3", "4", "5", "6", "7", "8", "9"}

network_string(pieces) ==
    /\ Len(pieces) = 2
    /\ bare_address(pieces[1]).ok
    /\ prefix_digits(pieces[2])
    /\ int(pieces[2], 10) <= (IF bare_address(pieces[1]).val.version = 4 THEN 32 ELSE 128)

group_width(ip) == IF ip.version = 4 THEN 8 ELSE 16

\* bit k of an address, counting from the most significant bit as bit 1
address_bit(ip, k) ==
    (ip.groups[((k - 1) \div group_width(ip)) + 1]
        \div (2 ^ (group_width(ip) - 1 - ((k - 1) % group_width(ip))))) % 2

\* net is addr with every bit after the first p bits cleared
is_network_address(net, addr, p) ==
    /\ net.ok
    /\ net.val.version = addr.version
    /\ \A k \in 1..(Len(addr.groups) * group_width(addr)) :
           address_bit(net.val, k) = (IF k <= p THEN address_bit(addr, k) ELSE 0)

has_host_bits(addr, p) ==
    \E k \in 1..(Len(addr.groups) * group_width(addr)) : k > p /\ address_bit(addr, k) = 1

network_result(pieces, out) ==
    /\ out.ok
    /\ Len(split(out.val, "/")) = 2
    /\ split(out.val, "/")[2] = format_int(int(pieces[2], 10), 10)
    /\ is_network_address(bare_address(split(out.val, "/")[1]),
                          bare_address(pieces[1]).val, int(pieces[2], 10))

\* C3: for every valid network string n/p, host bits set or not, the call
\* succeeds and returns the network address of n/p (the first p bits of n,
\* every later bit zero), a "/" and the prefix length p.
NetworkHostBitsZeroed ==
    (Len(ret) >= 1 /\ network_string(split(strip(arg), "/"))) =>
        network_result(split(strip(arg), "/"), ret[1])

\* a network string with host bits set was normalized
NetworkWithHostBitsNormalized ==
    /\ Len(ret) >= 1
    /\ network_string(split(strip(arg), "/"))
    /\ has_host_bits(bare_address(split(strip(arg), "/")[1]).val,
                     int(split(strip(arg), "/")[2], 10))
    /\ ret[1].ok

\* C4: normalize_ip_or_cidr is idempotent: whenever it succeeds on x,
\* applying it to its own result succeeds too and returns the same string.
NormalizeIdempotent == Len(ret) = 2 => (ret[2].ok /\ ret[2].val = ret[1].val)

\* a text that normalization changed was normalized twice
NormalizedTwice == Len(ret) = 2 /\ ret[1].val # strip(arg)

(***************************************************************************)
(* Properties of gen_group_cmd, checked under SpecGroupCmd.                *)
(***************************************************************************)
trimmed_nonblank(members) ==
    SelectSeq([i \in DOMAIN members |-> strip(members[i])], LAMBDA m : m # <<>>)

is_valid_name(text) == text # <<>> /\ Range(text) \cap (Whitespace \cup {"/"}) = {}

group_line(platform, group_name, member) ==
    (IF platform = "Firewall"
     THEN <<"s", "e", "t", " ", "a", "d", "d", "r", "e", "s", "s", "-", "g", "r", "o", "u", "p">>
     ELSE <<"s", "e", "t", " ", "s", "h", "a", "r", "e", "d", " ",
            "a", "d", "d", "r", "e", "s", "s", "-", "g", "r", "o", "u", "p">>)
    \o <<" ">> \o group_name \o <<" ", "s", "t", "a", "t", "i", "c", " ">> \o member

group_lines(platform, group_name, kept) ==
    [i \in DOMAIN kept |-> group_line(platform, group_name, kept[i])]

\* C6: when every non-blank trimmed member is a valid name, gen_group_cmd
\* returns exactly one line "<prefix> {groupName} static {member}" per
\* non-blank trimmed member, in input order, none for blank entries and one
\* for each duplicate; when some non-blank trimmed member is not a valid
\* name the call fails and returns no line at all.
GroupCmdOneLinePerMember ==
    (pc = "gen_group_cmd" /\ ret # <<>>) =>
        IF \A i \in DOMAIN trimmed_nonblank(arg.members) :
               is_valid_name(trimmed_nonblank(arg.members)[i])
        THEN /\ ret[1].ok
             /\ ret[1].val = group_lines(arg.platform, arg.group_name,
                                         trimmed_nonblank(arg.members))
        ELSE /\ ~ret[1].ok
             /\ ret[1].val = <<>>

\* a list with a blank entry and a repeated member gave its lines
GroupCmdWithBlankAndDuplicate ==
    /\ pc = "gen_group_cmd"
    /\ ret # <<>>
    /\ ret[1].ok
    /\ \E i \in DOMAIN arg.members : strip(arg.members[i]) = <<>>
    /\ \E i, j \in DOMAIN arg.members :
           i < j /\ strip(arg.members[i]) = strip(arg.members[j]) /\ strip(arg.members[i]) # <<>>

(***************************************************************************)
(* Properties of the generation handlers, checked under Spec.  What a      *)
(* handler should have written is computed here from the text of the       *)
(* command templates and from what a box or a file holds.                  *)
(***************************************************************************)
has_prefix(s, prefix) == Len(s) >= Len(prefix) /\ SubSeq(s, 1, Len(prefix)) = prefix

\* the lines of the output box
output_lines(text) ==
    IF text = <<>> THEN <<>> ELSE split(SubSeq(text, 1, Len(text) - 1), "\n")

\* the text of a command list in the output box
text_of(cmds) == IF cmds = <<>> THEN <<>> ELSE join(cmds, <<"\n">>) \o <<"\n">>

address_line(platform, name, cidr) ==
    (IF platform = "Firewall" THEN <<"s", "e", "t", " ", "a", "d", "d", "r", "e", "s", "s">>
     ELSE <<"s", "e", "t", " ", "s", "h", "a", "r", "e", "d", " ", "a", "d", "d", "r", "e", "s", "s">>)
    \o <<" ">> \o name \o <<" ", "i", "p", "-", "n", "e", "t", "m", "a", "s", "k", " ">> \o cidr

group_prefix(platform) ==
    IF platform = "Firewall" THEN <<"s", "e", "t", " ", "a", "d", "d", "r", "e", "s", "s", "-", "g", "r", "o", "u", "p">>
    ELSE <<"s", "e", "t", " ", "s", "h", "a", "r", "e", "d", " ", "a", "d", "d", "r", "e", "s", "s", "-", "g", "r", "o", "u", "p">>

\* the normalized texts of the valid addresses the model enters
Cidrs == {normalized[v].val : v \in {w \in DOMAIN normalized : normalized[w].ok}}

\* the addresses a box holds, and those a file holds
addresses_in_box == [box \in Boxes(IpLines) |-> trimmed_nonblank(box)] @@ <<>>
addresses_in_file ==
    [file \in Files(IpLines) |->
        IF file.ext = ".csv"
        THEN trimmed_nonblank([i \in DOMAIN file.lines |-> split(file.lines[i], ",")[1]])
        ELSE trimmed_nonblank(file.lines)] @@ <<>>
box_addresses(box) == addresses_in_box[box]
file_addresses(file) == addresses_in_file[file]

\* one address command per name, the i-th for the i-th name and the
\* normalized i-th address
paired_output(platform, ns, addresses) ==
    text_of([i \in DOMAIN ns |->
                address_line(platform, ns[i], normalized[addresses[i]].val)])

\* one group command per member, group after group
grouped_output(platform, groups, rows) ==
    text_of(flatten([i \in DOMAIN groups |-> group_lines(platform, groups[i], rows[i])]))

\* the member lists a members box holds
box_member_rows(box) ==
    [i \in DOMAIN trimmed_nonblank(box) |->
        trimmed_nonblank(split(trimmed_nonblank(box)[i], ","))]

address_step == pc \in {"addr_ips", "import_addr_ips"}
group_step == pc \in {"group_members", "import_group_members"}

\* C5: every line a generation action emits uses the dialect of the
\* platform selected for that action: with Firewall an address line is
\* exactly "set address {name} ip-netmask {cidr}" and a group line starts
\* with "set address-group", with Panorama "set shared address ..." and
\* "set shared address-group"; no batch mixes the two dialects.
lines_in_dialect(platform, ns, lines) ==
    /\ address_step =>
           /\ Len(lines) = Len(ns)
           /\ \A i \in DOMAIN lines :
                  \E cidr \in Cidrs : lines[i] = address_line(platform, ns[i], cidr)
    /\ group_step =>
           \A i \in DOMAIN lines : has_prefix(lines[i], group_prefix(platform) \o <<" ">>)

DialectOfSelectedPlatform ==
    [][result' = "ok" =>
           /\ address_step \/ group_step
           /\ lines_in_dialect(platform_var, names, output_lines(output_text'))]_vars

\* a batch of several lines was generated for Panorama
PanoramaBatchGenerated ==
    /\ result = "ok"
    /\ platform_var = "Panorama"
    /\ Len(output_lines(output_text)) >= 2

\* what an address action does with its names and addresses when it succeeds
pairs_on_success(addresses) ==
    result' = "ok" =>
        /\ Len(addresses) = Len(names)
        /\ output_text' = paired_output(platform_var, names, addresses)

\* C7, as the specification states it: an address generation action whose
\* names and addresses differ in number fails with the count-mismatch error
\* and produces no output; a successful one gives one command per name, the
\* i-th pairing the i-th name with the normalized i-th address.
mismatch_reported_as_such(addresses) ==
    /\ Len(addresses) # Len(names) =>
           (result' = "CountMismatch" /\ output_text' = output_text)
    /\ pairs_on_success(addresses)

AddressCountMismatchAlwaysReported ==
    [][/\ pc = "addr_ips" =>
              \A box \in Boxes(IpLines) :
                  mismatch_reported_as_such(box_addresses(box)) \/ ~confirm_ips(box)
       /\ pc = "import_addr_ips" =>
              \A file \in Files(IpLines) :
                  mismatch_reported_as_such(file_addresses(file)) \/ ~import_address_ips(file)]_vars

\* C7, amended: an address generation action whose names and addresses
\* differ in number fails and produces no output; the error is the
\* count-mismatch error, except that an empty addresses collection is
\* reported as an empty input and that the file import reports an invalid
\* address of the file before it compares the counts.  A successful action
\* gives one command per name, the i-th pairing the i-th name with the
\* normalized i-th address.
mismatch_error(addresses, from_file) ==
    IF from_file /\ \E i \in DOMAIN addresses : ~normalized[addresses[i]].ok
    THEN "InvalidAddress"
    ELSE IF addresses = <<>> THEN "EmptyBatch"
    ELSE "CountMismatch"

mismatch_rejected(addresses, from_file) ==
    /\ Len(addresses) # Len(names) =>
           (result' = mismatch_error(addresses, from_file) /\ output_text' = output_text)
    /\ pairs_on_success(addresses)

AddressCountMismatchRejected ==
    [][/\ pc = "addr_ips" =>
              \A box \in Boxes(IpLines) :
                  mismatch_rejected(box_addresses(box), FALSE) \/ ~confirm_ips(box)
       /\ pc = "import_addr_ips" =>
              \A file \in Files(IpLines) :
                  mismatch_rejected(file_addresses(file), TRUE) \/ ~import_address_ips(file)]_vars

\* the manual dialog reported a count mismatch
CountMismatchReported == pc = "addr_ips" /\ result = "CountMismatch"

\* C8: in a group import every member row that has no member after
\* trimming (a blank row, or a row of empty entries only) rejects the whole
\* import, with no output for any group; such a row is never skipped.
row_members(file, i) ==
    IF file.ext = ".csv"
    THEN trimmed_nonblank(Tail(split(file.lines[i], ",")))
    ELSE trimmed_nonblank(split(file.lines[i], ","))

has_empty_row(file) == \E i \in DOMAIN file.lines : row_members(file, i) = <<>>

EmptyMemberRowRejectsImport ==
    [][pc = "import_group_members" =>
           \A file \in Files(MemberLines) :
               (import_group_members(file) /\ has_empty_row(file)) =>
                   (result' \in Errors /\ output_text' = output_text)]_vars

\* C9: the output box holds nothing or exactly the complete command list of
\* the most recent successful action: a successful action replaces the
\* whole content, every other step (a failing action among them) leaves it
\* as it was.
complete_list(text) ==
    \/ /\ pc = "addr_ips"
       /\ \E box \in Boxes(IpLines) :
              /\ Len(box_addresses(box)) = Len(names)
              /\ text = paired_output(platform_var, names, box_addresses(box))
    \/ /\ pc = "import_addr_ips"
       /\ \E file \in Files(IpLines) :
              /\ Len(file_addresses(file)) = Len(names)
              /\ text = paired_output(platform_var, names, file_addresses(file))
    \/ /\ pc = "group_members"
       /\ \E box \in Boxes(MemberLines) :
              /\ Len(box_member_rows(box)) = Len(names)
              /\ text = grouped_output(platform_var, names, box_member_rows(box))
    \/ /\ pc = "import_group_members"
       /\ \E file \in Files(MemberLines) :
              /\ members_read[file].ok
              /\ Len(members_read[file].val) = Len(names)
              /\ text = grouped_output(platform_var, names, members_read[file].val)

OutputReplacedOrUntouched ==
    [][/\ result' # "ok" => output_text' = output_text
       /\ result' = "ok" => (output_text' # <<>> /\ complete_list(output_text'))]_vars

\* a failing action left the command list of an earlier one in the box
FailureAfterOutput == result \in Errors /\ output_text # <<>>

\* C10: every command line in the output box is well-formed: the object
\* name, the group name and the member name are valid names (nonempty, no
\* whitespace, no "/") and the address of an address line is in normalized
\* <ip>/<prefixlen> form.
without_shared(words) ==
    IF Len(words) >= 2 /\ words[2] = <<"s", "h", "a", "r", "e", "d">>
    THEN <<words[1]>> \o SubSeq(words, 3, Len(words))
    ELSE words

well_formed(words) ==
    /\ Len(words) = 5
    /\ words[1] = <<"s", "e", "t">>
    /\ is_valid_name(words[3])
    /\ \/ /\ words[2] = <<"a", "d", "d", "r", "e", "s", "s">>
          /\ words[4] = <<"i", "p", "-", "n", "e", "t", "m", "a", "s", "k">>
          /\ network_string(split(words[5], "/"))
       \/ /\ words[2] = <<"a", "d", "d", "r", "e", "s", "s", "-", "g", "r", "o", "u", "p">>
          /\ words[4] = <<"s", "t", "a", "t", "i", "c">>
          /\ is_valid_name(words[5])

OutputLinesWellFormed ==
    \A i \in DOMAIN output_lines(output_text) :
        well_formed(without_shared(split(output_lines(output_text)[i], " ")))

\* group commands are in the output box
GroupCommandsShown ==
    /\ result = "ok"
    /\ current_mode_var = "group"
    /\ output_text # <<>>
=============================================================================
